---- MODULE Spec2Model ----
(***************************************************************************)
(* Model of generateDotMatrix (src/src/App.jsx, lines 62-133): hex-grid    *)
(* sampling of a region polygon with random jitter, followed by the        *)
(* proportional assignment of the retained points to farming methods.      *)
(*                                                                         *)
(* Coordinates are integers on a lattice whose unit is cellSize / 4.       *)
(* Numbers that the code computes as IEEE-754 doubles (proportions, the    *)
(* running cumulative sum, the position ratio) are modelled as doubles:    *)
(* see the section "IEEE-754 doubles".                                     *)
(***************************************************************************)
EXTENDS Integers, Sequences, FiniteSets

\* Bounds of the model: the largest magnitude of a method and the longest
\* farming-method list.
MaxValue == 2
MaxMethods == 3

\* Bound of the assignment specification: the most retained sample points.
MaxPoints == 5

\* cellSize (default parameter of generateDotMatrix), in lattice units.
CellSize == 4

---------------------------------------------------------------------------
(***************************************************************************)
(* IEEE-754 doubles.  A finite non-negative double x is represented by the *)
(* integer x * 2^60, written in three limbs of 20 bits <<hi, mid, lo>>;    *)
(* NaN and +Infinity are separate values.  Every double in [2^-7, 4) has   *)
(* its 53-bit significand above 2^-60, so it is represented exactly; the   *)
(* model only divides naturals below 128, whose quotients are 0, NaN,      *)
(* +Infinity or lie in that range.                                         *)
(***************************************************************************)
Limb == 1024 * 1024

RECURSIVE Pow2(_)
Pow2(k) == IF k = 0 THEN 1 ELSE 2 * Pow2(k - 1)

RECURSIVE BitLen(_)
BitLen(x) == IF x = 0 THEN 0 ELSE 1 + BitLen(x \div 2)

FNaN == [nan |-> TRUE, inf |-> FALSE, hi |-> 0, mid |-> 0, lo |-> 0]
FInfinity == [nan |-> FALSE, inf |-> TRUE, hi |-> 0, mid |-> 0, lo |-> 0]
FZero == [nan |-> FALSE, inf |-> FALSE, hi |-> 0, mid |-> 0, lo |-> 0]

\* Carry propagation after a limb-wise operation.
FNorm(hi, mid, lo) ==
    LET m2 == mid + (lo \div Limb)
    IN  [nan |-> FALSE, inf |-> FALSE,
         hi |-> hi + (m2 \div Limb), mid |-> m2 % Limb, lo |-> lo % Limb]

\* Round an exact value (plus a sticky bit for what lies below 2^-60) to a
\* 53-bit significand, ties to even.
Round53(x, sticky) ==
    IF x.hi = 0 THEN x
    ELSE LET d    == BitLen(x.hi) + 40 - 53
             unit == Pow2(d)
             low  == x.lo % unit
             half == unit \div 2
             odd  == (x.lo \div unit) % 2 = 1
             up   == IF d = 0 THEN FALSE
                     ELSE \/ low > half
                          \/ low = half /\ (sticky \/ odd)
         IN  IF d <= 0 THEN x
             ELSE FNorm(x.hi, x.mid, x.lo - low + (IF up THEN unit ELSE 0))

\* a / b on doubles, for naturals a, b below 128: 0 / 0 is NaN and a / 0
\* is +Infinity for a > 0.
FDiv(a, b) ==
    IF b = 0 THEN (IF a = 0 THEN FNaN ELSE FInfinity)
    ELSE LET n1 == a * Limb
             r1 == n1 % b
             n2 == r1 * Limb
             r2 == n2 % b
             n3 == r2 * Limb
             r3 == n3 % b
         IN  Round53([nan |-> FALSE, inf |-> FALSE,
                      hi |-> n1 \div b, mid |-> n2 \div b, lo |-> n3 \div b],
                     r3 # 0)

\* x + y on doubles.
FAdd(x, y) ==
    IF x.nan \/ y.nan THEN FNaN
    ELSE IF x.inf \/ y.inf THEN FInfinity
    ELSE Round53(FNorm(x.hi + y.hi, x.mid + y.mid, x.lo + y.lo), FALSE)

\* x < y on doubles: false when either side is NaN; every finite double
\* is below +Infinity.
FLt(x, y) ==
    /\ ~x.nan
    /\ ~y.nan
    /\ ~x.inf
    /\ \/ y.inf
       \/ x.hi < y.hi
       \/ x.hi = y.hi /\ x.mid < y.mid
       \/ x.hi = y.hi /\ x.mid = y.mid /\ x.lo < y.lo

---------------------------------------------------------------------------
(***************************************************************************)
(* Inputs.  A feature is a polygon or multi-polygon, here a set of         *)
(* axis-aligned rectangles on the lattice; isNull marks a missing feature, *)
(* on which turf.bbox throws, and degenerate holds the centroids of the    *)
(* hex cells whose geometry makes the per-cell step throw.                 *)
(***************************************************************************)
Rect(x0, y0, x1, y1) == [minX |-> x0, minY |-> y0, maxX |-> x1, maxY |-> y1]

NullFeature == [isNull |-> TRUE, polys |-> {}, degenerate |-> {}]

\* Narrower than one hex cell: the grid is empty.
SliverFeature == [isNull |-> FALSE, polys |-> {Rect(0, 0, 3, 3)}, degenerate |-> {}]

\* An L-shaped region of two cells; every centroid is inside.
LFeature ==
    [isNull |-> FALSE, polys |-> {Rect(0, 0, 2, 4), Rect(2, 2, 8, 4)}, degenerate |-> {}]

\* The same region with a degenerate first cell.
LFeatureDegenerate ==
    [isNull |-> FALSE, polys |-> {Rect(0, 0, 2, 4), Rect(2, 2, 8, 4)},
     degenerate |-> {<<2, 2>>}]

\* Two islands over three cells: every centroid lies outside the region,
\* and each cell has jittered points inside it.
IslandFeature ==
    [isNull |-> FALSE, polys |-> {Rect(0, 0, 4, 1), Rect(7, 3, 12, 4)}, degenerate |-> {}]

\* Two bars around a gap: the only centroid lies in the gap.
GapFeature ==
    [isNull |-> FALSE, polys |-> {Rect(0, 0, 1, 4), Rect(3, 0, 4, 4)}, degenerate |-> {}]

Features ==
    {NullFeature, SliverFeature, GapFeature, LFeature, LFeatureDegenerate, IslandFeature}

\* Method names by position in the list: palette keys, a name missing from
\* the palette, and a name that Object.prototype defines.
MethodNames == <<"organic", "constructor", "biodynamic", "conventional", "terracing">>

NullMethod == [isNull |-> TRUE, name |-> "", value |-> 0]

Method(n, v) == [isNull |-> FALSE, name |-> n, value |-> v]

\* farmingMethods: absent (null / undefined), or a list of methods.
AbsentMethods == [absent |-> TRUE, list |-> <<>>]

MethodLists ==
    {AbsentMethods, [absent |-> FALSE, list |-> <<>>], [absent |-> FALSE, list |-> <<NullMethod>>]}
    \cup
    UNION {{[absent |-> FALSE, list |-> [k \in 1..len |-> Method(MethodNames[k], vals[k])]] :
               vals \in [1..len -> 0..MaxValue]} : len \in 1..MaxMethods}

---------------------------------------------------------------------------
(***************************************************************************)
(* Geometry (turf.bbox, turf.hexGrid, turf.centroid,                       *)
(* turf.booleanPointInPolygon as generateDotMatrix uses them).             *)
(***************************************************************************)
Min(S) == CHOOSE x \in S : \A y \in S : x <= y
Max(S) == CHOOSE x \in S : \A y \in S : x >= y

Bbox(f) ==
    Rect(Min({r.minX : r \in f.polys}), Min({r.minY : r \in f.polys}),
         Max({r.maxX : r \in f.polys}), Max({r.maxY : r \in f.polys}))

\* The centroids of the cells of the grid, column by column: only whole
\* cells of side cellSize inside the bounding box.
HexGrid(bbox, cellSize) ==
    LET cols == (bbox.maxX - bbox.minX) \div cellSize
        rows == (bbox.maxY - bbox.minY) \div cellSize
    IN  [k \in 1..(cols * rows) |->
            <<bbox.minX + (cellSize \div 2) + ((k - 1) \div rows) * cellSize,
              bbox.minY + (cellSize \div 2) + ((k - 1) % rows) * cellSize>>]

\* Boundary points count as inside (ignoreBoundary is not set).
BooleanPointInPolygon(p, f) ==
    \E r \in f.polys : /\ r.minX <= p[1] /\ p[1] <= r.maxX
                       /\ r.minY <= p[2] /\ p[2] <= r.maxY

Abs(x) == IF x < 0 THEN -x ELSE x

\* (Math.random() - 0.5) * jitterAmount with jitterAmount = cellSize * 0.7:
\* the lattice offsets within 0.35 * cellSize.
JitterOffsets(cellSize) == {d \in -cellSize..cellSize : 20 * Abs(d) <= 7 * cellSize}

---------------------------------------------------------------------------
(***************************************************************************)
(* The palette and the proportional assignment.                            *)
(***************************************************************************)
METHOD_COLORS ==
    [conventional |-> "#8fbc8f", organic |-> "#4a7c59", terracing |-> "#b89860",
     greenhouse |-> "#7c6b9e", hydroponics |-> "#5a9cb0", mechanized |-> "#d4829c",
     irrigation |-> "#5080a3", agroforestry |-> "#7ba35a", urban_farming |-> "#c45c5c",
     vertical_farming |-> "#509e95"]

\* METHOD_COLORS is an object literal: a property read that misses its own
\* keys continues on Object.prototype, whose members are truthy values.
ObjectPrototype ==
    [constructor |-> "function Object()", toString |-> "function toString()",
     valueOf |-> "function valueOf()", hasOwnProperty |-> "function hasOwnProperty()",
     isPrototypeOf |-> "function isPrototypeOf()",
     propertyIsEnumerable |-> "function propertyIsEnumerable()",
     toLocaleString |-> "function toLocaleString()",
     __proto__ |-> "[object Object]",
     __defineGetter__ |-> "function __defineGetter__()",
     __defineSetter__ |-> "function __defineSetter__()",
     __lookupGetter__ |-> "function __lookupGetter__()",
     __lookupSetter__ |-> "function __lookupSetter__()"]

\* METHOD_COLORS[m.name] || '#999'
MethodColor(name) ==
    IF name \in DOMAIN METHOD_COLORS THEN METHOD_COLORS[name]
    ELSE IF name \in DOMAIN ObjectPrototype THEN ObjectPrototype[name]
    ELSE "#999"

RECURSIVE SumValues(_)
SumValues(methods) ==
    IF methods = <<>> THEN 0
    ELSE methods[1].value + SumValues(Tail(methods))

\* methodProportions: name, proportion = value / total (a double), color.
MethodProportions(methods) ==
    LET total == SumValues(methods)
    IN  [k \in 1..Len(methods) |->
            [name |-> methods[k].name,
             proportion |-> FDiv(methods[k].value, total),
             color |-> MethodColor(methods[k].name)]]

\* The running sum `cumulative` after the first k methods of the loop.
RECURSIVE Cumulative(_, _)
Cumulative(props, k) ==
    IF k = 0 THEN FZero ELSE FAdd(Cumulative(props, k - 1), props[k].proportion)

\* x <= y on doubles.
FLe(x, y) == ~x.nan /\ ~y.nan /\ ~FLt(y, x)

\* Variant: the loop of lines 113-119 without its break, the last hit wins.
AssignedMethodNoBreak(props, newIndex, n) ==
    LET ratio == FDiv(newIndex, n)
        hits  == {k \in 1..Len(props) : FLt(ratio, Cumulative(props, k))}
    IN  IF hits = {} THEN Len(props) ELSE Max(hits)

\* Variant: the test of line 115 as ratio <= cumulative.
AssignedMethodInclusive(props, newIndex, n) ==
    LET ratio == FDiv(newIndex, n)
        hits  == {k \in 1..Len(props) : FLe(ratio, Cumulative(props, k))}
    IN  IF hits = {} THEN Len(props) ELSE Min(hits)

\* The index of the method assigned to the point at position newIndex
\* (from 0) of n: the first whose cumulative sum exceeds newIndex / n, the
\* last method when there is none.
AssignedMethod(props, newIndex, n) ==
    LET ratio == FDiv(newIndex, n)
        hits  == {k \in 1..Len(props) : FLt(ratio, Cumulative(props, k))}
    IN  IF hits = {} THEN Len(props) ELSE Min(hits)

\* assignedMethod for every position of the forEach of line 107.
Assignment(props, n) ==
    [i \in 1..n |-> props[AssignedMethod(props, i - 1, n)]]

\* Variant: the method taken at the point's original index instead of its
\* position in the shuffled order.
DotsByOriginalIndex(points, assigned, shuffledIndices) ==
    [i \in 1..Len(points) |->
        [coordinates |-> points[shuffledIndices[i]],
         method |-> assigned[shuffledIndices[i]].name,
         color |-> assigned[shuffledIndices[i]].color]]

\* The dots of lines 106-126 for the shuffled order `shuffledIndices`.
Dots(points, assigned, shuffledIndices) ==
    [i \in 1..Len(points) |->
        [coordinates |-> points[shuffledIndices[i]],
         method |-> assigned[i].name,
         color |-> assigned[i].color]]

\* The orders a comparator sort can leave the indices in: the permutations.
RECURSIVE Permutations(_)
Permutations(S) ==
    IF S = {} THEN {<<>>}
    ELSE UNION {{<<x>> \o p : p \in Permutations(S \ {x})} : x \in S}

\* Variant: an independent weighted random choice of a method per point.
WeightedDots(points, props) ==
    LET live == {k \in 1..Len(props) : FLt(FZero, props[k].proportion)}
    IN  {[i \in 1..Len(points) |->
            [coordinates |-> points[i], method |-> props[c[i]].name,
             color |-> props[c[i]].color]] : c \in [1..Len(points) -> live]}

\* Every result lines 104-126 can produce: one per shuffled order.
ShuffledDots(points, props) ==
    UNION {{Dots(points, assigned, p) : p \in Permutations(1..Len(points))} :
              assigned \in {Assignment(props, Len(points))}}

---------------------------------------------------------------------------
(***************************************************************************)
(* State of one call of generateDotMatrix.                                 *)
(***************************************************************************)
VARIABLES
    pc,               \* "idle", "cells", "distribute", "returned", "threw"
    feature,          \* argument: the region
    farmingMethods,   \* argument: the magnitude list
    hexGrid,          \* hexGrid.features, as their centroids
    cellIdx,          \* cells the forEach of line 73 has processed
    jitteredPoint,    \* local of the last processed cell (<<>>: none)
    pointsInPolygon,  \* retained sample points
    result,           \* the returned sequence of dots
    logged,           \* console.error was called (line 130)
    prev              \* retained points and dots per method of the
                      \* previous call, when it had the same arguments

vars ==
    <<pc, feature, farmingMethods, hexGrid, cellIdx, jitteredPoint,
      pointsInPolygon, result, logged, prev>>

NoPrev == [valid |-> FALSE, n |-> 0, counts |-> <<>>]

\* Dots per method of the list, by position in the list.
Counts(dots, methods) ==
    [k \in 1..Len(methods) |->
        Cardinality({i \in 1..Len(dots) : dots[i].method = methods[k].name})]

\* Variant: the outer catch logs and rethrows.
RethrowingCatch == [pc |-> "threw", result |-> <<>>, logged |-> TRUE]

\* The outer catch (lines 129-132): log, return [].
OuterCatch == [pc |-> "returned", result |-> <<>>, logged |-> TRUE]

\* Variant: no per-cell catch, the error reaches the outer catch.
CellFailureAborts == "abort"

\* The per-cell catch (lines 87-89) swallows the error: the forEach goes on.
CellFailureHandling == "skip"

\* Variant: the fallback branch pushes the jittered point.
RetainedPointsJitteredFallback(points, centroid, jittered, f) ==
    IF BooleanPointInPolygon(jittered, f) THEN Append(points, jittered)
    ELSE IF BooleanPointInPolygon(centroid, f) THEN Append(points, jittered)
    ELSE points

\* Variant: the centroid is tried first.
RetainedPointsCentroidFirst(points, centroid, jittered, f) ==
    IF BooleanPointInPolygon(centroid, f) THEN Append(points, centroid)
    ELSE IF BooleanPointInPolygon(jittered, f) THEN Append(points, jittered)
    ELSE points

\* Lines 81-86: the jittered point when inside, else the centroid when
\* inside, else nothing.
RetainedPoints(points, centroid, jittered, f) ==
    IF BooleanPointInPolygon(jittered, f) THEN Append(points, jittered)
    ELSE IF BooleanPointInPolygon(centroid, f) THEN Append(points, centroid)
    ELSE points

\* Line 92.
EarlyExit(points, methods) ==
    Len(points) = 0 \/ methods.absent \/ Len(methods.list) = 0

\* Lines 96-126 throw a TypeError: reduce on a missing list, m.value on a
\* null entry, assignedMethod.name when there is no method.
DistributionThrows(points, methods) ==
    \/ methods.absent
    \/ \E k \in 1..Len(methods.list) : methods.list[k].isNull
    \/ Len(methods.list) = 0 /\ Len(points) > 0

Init ==
    /\ pc = "idle"
    /\ feature = NullFeature
    /\ farmingMethods = AbsentMethods
    /\ hexGrid = <<>>
    /\ cellIdx = 0
    /\ jitteredPoint = <<>>
    /\ pointsInPolygon = <<>>
    /\ result = <<>>
    /\ logged = FALSE
    /\ prev = NoPrev

\* Lines 63-71: entry, bounding box and grid.
Enter(f, m) ==
    /\ feature' = f
    /\ farmingMethods' = m
    /\ cellIdx' = 0
    /\ jitteredPoint' = <<>>
    /\ pointsInPolygon' = <<>>
    /\ IF f.isNull
       THEN /\ hexGrid' = <<>>
            /\ pc' = OuterCatch.pc
            /\ result' = OuterCatch.result
            /\ logged' = OuterCatch.logged
       ELSE /\ hexGrid' = HexGrid(Bbox(f), CellSize)
            /\ pc' = IF Len(hexGrid') = 0 THEN "distribute" ELSE "cells"
            /\ result' = <<>>
            /\ logged' = FALSE

\* A first call, with any arguments.
Call ==
    /\ pc = "idle"
    /\ \E f \in Features, m \in MethodLists : Enter(f, m)
    /\ prev' = NoPrev

\* The caller calls again with the same arguments (a re-render).
CallAgain ==
    /\ pc = "returned"
    /\ Enter(feature, farmingMethods)
    /\ prev' = [valid |-> TRUE, n |-> Len(pointsInPolygon),
                counts |-> Counts(result, farmingMethods.list)]

\* One iteration of the forEach of lines 73-90.
ProcessCell ==
    /\ pc = "cells"
    /\ LET centroid == hexGrid[cellIdx + 1]
           last     == cellIdx + 1 = Len(hexGrid)
       IN  IF centroid \in feature.degenerate
           THEN /\ jitteredPoint' = <<>>
                /\ pointsInPolygon' = pointsInPolygon
                /\ IF CellFailureHandling = "skip"
                   THEN /\ pc' = IF last THEN "distribute" ELSE "cells"
                        /\ UNCHANGED <<result, logged>>
                   ELSE /\ pc' = OuterCatch.pc
                        /\ result' = OuterCatch.result
                        /\ logged' = OuterCatch.logged
           ELSE /\ \E dx, dy \in JitterOffsets(CellSize) :
                      /\ jitteredPoint' = <<centroid[1] + dx, centroid[2] + dy>>
                      /\ pointsInPolygon' =
                             RetainedPoints(pointsInPolygon, centroid, jitteredPoint', feature)
                /\ pc' = IF last THEN "distribute" ELSE "cells"
                /\ UNCHANGED <<result, logged>>
    /\ cellIdx' = cellIdx + 1
    /\ UNCHANGED <<feature, farmingMethods, hexGrid, prev>>

\* Lines 92-128: early exit, proportions, shuffle, assignment, return.
Distribute ==
    /\ pc = "distribute"
    /\ IF EarlyExit(pointsInPolygon, farmingMethods)
       THEN /\ pc' = "returned"
            /\ result' = <<>>
            /\ logged' = logged
       ELSE IF DistributionThrows(pointsInPolygon, farmingMethods)
       THEN /\ pc' = OuterCatch.pc
            /\ result' = OuterCatch.result
            /\ logged' = OuterCatch.logged
       ELSE /\ pc' = "returned"
            /\ result' \in ShuffledDots(pointsInPolygon,
                                        MethodProportions(farmingMethods.list))
            /\ logged' = logged
    /\ UNCHANGED <<feature, farmingMethods, hexGrid, cellIdx, jitteredPoint,
                   pointsInPolygon, prev>>

Next == Call \/ CallAgain \/ ProcessCell \/ Distribute

Spec == Init /\ [][Next]_vars

---------------------------------------------------------------------------
(***************************************************************************)
(* The assignment alone: the state after the forEach of lines 73-90 on an  *)
(* open field of n cells in which every jitter drew a zero offset, with    *)
(* any magnitude list; the only step is lines 92-128.                      *)
(***************************************************************************)
FieldFeature(n) ==
    [isNull |-> FALSE, polys |-> {Rect(0, 0, CellSize * n, CellSize)}, degenerate |-> {}]

InitAssign ==
    \E n \in 1..MaxPoints, m \in MethodLists :
        /\ pc = "distribute"
        /\ feature = FieldFeature(n)
        /\ farmingMethods = m
        /\ hexGrid = HexGrid(Bbox(FieldFeature(n)), CellSize)
        /\ cellIdx = n
        /\ jitteredPoint = HexGrid(Bbox(FieldFeature(n)), CellSize)[n]
        /\ pointsInPolygon = HexGrid(Bbox(FieldFeature(n)), CellSize)
        /\ result = <<>>
        /\ logged = FALSE
        /\ prev = NoPrev

SpecAssign == InitAssign /\ [][Distribute]_vars

---------------------------------------------------------------------------
(***************************************************************************)
(* Properties.                                                             *)
(***************************************************************************)
\* A non-empty list of well-formed methods.
Usable(m) ==
    /\ ~m.absent
    /\ Len(m.list) > 0
    /\ \A k \in 1..Len(m.list) : ~m.list[k].isNull

Total == SumValues(farmingMethods.list)

\* The position in the list of the method a dot names (names are distinct).
MethodIndex(dot) ==
    CHOOSE k \in 1..Len(farmingMethods.list) : farmingMethods.list[k].name = dot.method

\* round(a / b), halves up, for naturals a and b > 0.
Round(a, b) == (2 * a + b) \div (2 * b)

\* C1: with a usable list of positive sum and n > 0 retained points, the
\* call returns exactly n dots, each naming exactly one method of the list,
\* and the dots of every method number within 1 of round(value / sum * n).
C1_ProportionalCounts ==
    (pc = "returned" /\ Usable(farmingMethods) /\ Total > 0
        /\ Len(pointsInPolygon) > 0) =>
    LET n    == Len(pointsInPolygon)
        list == farmingMethods.list
    IN  /\ Len(result) = n
        /\ \A i \in 1..Len(result) :
               Cardinality({k \in 1..Len(list) : list[k].name = result[i].method}) = 1
        /\ \A cnt \in {Counts(result, list)}, total \in {Total} :
               \A k \in 1..Len(list) :
                   Abs(cnt[k] - Round(list[k].value * n, total)) <= 1

\* A return where some method's count differs from its rounded share.
C1_Witness ==
    /\ pc = "returned" /\ Usable(farmingMethods) /\ Total > 0
    /\ Len(result) >= 3
    /\ \E k \in 1..Len(farmingMethods.list) :
           Counts(result, farmingMethods.list)[k]
               # Round(farmingMethods.list[k].value * Len(result), Total)

\* C2: a non-empty list whose values sum to zero makes the call return an
\* empty sequence, whatever the polygon retains.
C2_ZeroSumReturnsEmpty ==
    (pc = "returned" /\ Usable(farmingMethods) /\ Total = 0) => result = <<>>

\* C3: every returned dot lies inside the input polygon, and so does every
\* retained point.
C3_DotsInsidePolygon ==
    /\ \A i \in 1..Len(pointsInPolygon) :
           BooleanPointInPolygon(pointsInPolygon[i], feature)
    /\ pc = "returned" =>
           \A i \in 1..Len(result) :
               BooleanPointInPolygon(result[i].coordinates, feature)

\* A return whose last cell drew a jittered point outside the polygon and
\* whose centroid is among the dots.
C3_Witness ==
    /\ pc = "returned"
    /\ jitteredPoint # <<>>
    /\ ~BooleanPointInPolygon(jitteredPoint, feature)
    /\ \E i \in 1..Len(result) : result[i].coordinates = hexGrid[Len(hexGrid)]

\* C4: the call returns an empty sequence, and does not throw, whenever
\* the list is absent or empty and whenever no cell retained a point.
C4_EmptyInputsReturnEmpty ==
    (/\ pc \in {"returned", "threw"}
     /\ \/ farmingMethods.absent
        \/ Len(farmingMethods.list) = 0
        \/ Len(pointsInPolygon) = 0) =>
    (pc = "returned" /\ result = <<>>)

\* A return with an absent list although points were retained.
C4_Witness ==
    /\ pc = "returned"
    /\ farmingMethods.absent
    /\ Len(pointsInPolygon) > 0
    /\ result = <<>>

\* The cells whose geometry is sound and whose centroid is inside.
SoundCells ==
    {k \in 1..Len(hexGrid) :
        hexGrid[k] \notin feature.degenerate /\ BooleanPointInPolygon(hexGrid[k], feature)}

\* C5: no exception reaches the caller; a failing cell drops only itself
\* (every cell is processed and every sound cell retains a point); a
\* failure outside the per-cell step returns an empty sequence.
C5_NoExceptionEscapes ==
    /\ pc # "threw"
    /\ (pc = "returned" /\ logged) => result = <<>>
    /\ (pc \in {"distribute", "returned"} /\ ~feature.isNull) =>
           /\ cellIdx = Len(hexGrid)
           /\ Len(pointsInPolygon) >= Cardinality(SoundCells)

\* A return with dots although one cell was degenerate.
C5_Witness ==
    /\ pc = "returned"
    /\ feature.degenerate # {}
    /\ Len(result) > 0

\* C6: a dot's color is the palette color of its method name when the
\* name is a palette key, and '#999' for every other name.
C6_ColorByNameAlone ==
    pc = "returned" =>
        \A i \in 1..Len(result) :
            result[i].color =
                IF result[i].method \in DOMAIN METHOD_COLORS
                THEN METHOD_COLORS[result[i].method]
                ELSE "#999"

\* C7 as stated: a second call with the same arguments returns the same
\* number of dots per method as the first.
C7_SameCountsSameArguments ==
    (pc = "returned" /\ prev.valid) =>
        Counts(result, farmingMethods.list) = prev.counts

\* C7 as amended: a second call with the same arguments that retains as
\* many points as the first returns the same number of dots per method.
C7_SameCountsSameRetained ==
    (pc = "returned" /\ prev.valid /\ prev.n = Len(pointsInPolygon)) =>
        Counts(result, farmingMethods.list) = prev.counts

\* A second call that retained as many points as the first, with dots of
\* two methods.
C7_Witness ==
    /\ pc = "returned" /\ prev.valid
    /\ prev.n = Len(pointsInPolygon)
    /\ Len(result) >= 2
    /\ \E i, j \in 1..Len(result) : result[i].method # result[j].method

\* The cumulative proportion after each method of the list, as the doubles
\* the loop of lines 112-114 holds.
CumulativeProportions(methods) ==
    CHOOSE cum \in {[k \in 1..Len(methods) |-> Cumulative(props, k)] :
                        props \in {MethodProportions(methods)}} : TRUE

\* C8: with a usable list of positive sum, the dot at position i of n
\* names the first method, in list order, whose cumulative proportion
\* exceeds i / n, and the method index never decreases along the result.
C8_ContiguousBlocks ==
    (pc = "returned" /\ Usable(farmingMethods) /\ Total > 0) =>
    LET n == Len(result)
    IN  \A cum \in {CumulativeProportions(farmingMethods.list)},
           idx \in {[i \in 1..n |-> MethodIndex(result[i])]} :
            /\ \A i \in 1..n :
                   \A ratio \in {FDiv(i - 1, n)} :
                       /\ FLt(ratio, cum[idx[i]])
                       /\ \A j \in 1..(idx[i] - 1) : ~FLt(ratio, cum[j])
            /\ \A i, j \in 1..n : i < j => idx[i] <= idx[j]

\* A shuffled return with dots of two methods.
C8_Witness ==
    /\ pc = "returned" /\ Usable(farmingMethods) /\ Total > 0
    /\ Len(result) >= 3
    /\ result[1].coordinates # pointsInPolygon[1]
    /\ result[1].method # result[Len(result)].method

\* C9: every cell adds at most one point: the jittered point when inside,
\* else the centroid when inside, else nothing; and with a usable list the
\* dots carry exactly the retained points, each once, in some order.
C9_OnePointPerCell ==
    /\ [][(pc = "cells" /\ cellIdx' = cellIdx + 1) =>
            pointsInPolygon' =
                IF jitteredPoint' = <<>> THEN pointsInPolygon
                ELSE IF BooleanPointInPolygon(jitteredPoint', feature)
                     THEN Append(pointsInPolygon, jitteredPoint')
                ELSE IF BooleanPointInPolygon(hexGrid[cellIdx'], feature)
                     THEN Append(pointsInPolygon, hexGrid[cellIdx'])
                ELSE pointsInPolygon]_vars
    /\ []((pc = "returned" /\ Usable(farmingMethods)) =>
            /\ Len(result) = Len(pointsInPolygon)
            /\ \E p \in Permutations(1..Len(result)) :
                   \A i \in 1..Len(result) :
                       result[i].coordinates = pointsInPolygon[p[i]])

\* A shuffled return in which one cell was discarded.
C9_Witness ==
    /\ pc = "returned" /\ Usable(farmingMethods)
    /\ Len(result) >= 2
    /\ Len(result) < Len(hexGrid)
    /\ feature.degenerate = {}
    /\ result[1].coordinates # pointsInPolygon[1]

\* C10: with a list of positive sum, a method of value 0 gets no dot,
\* wherever it stands in the list.
C10_ZeroValueNoDots ==
    (pc = "returned" /\ Usable(farmingMethods) /\ Total > 0) =>
        \A k \in 1..Len(farmingMethods.list) :
            farmingMethods.list[k].value = 0 =>
                Counts(result, farmingMethods.list)[k] = 0

\* A return for a list whose first and last methods have value 0.
C10_Witness ==
    /\ pc = "returned" /\ Usable(farmingMethods) /\ Total > 0
    /\ Len(farmingMethods.list) >= 3
    /\ farmingMethods.list[1].value = 0
    /\ farmingMethods.list[Len(farmingMethods.list)].value = 0
    /\ Len(result) >= 2

====
